---- MODULE Spec2Model ----
(***************************************************************************)
(* Model of the animated-logo renderer: the mesh generators of             *)
(* core/models.py, the OffscreenRenderer of core/renderer.py, the          *)
(* render_animation driver of core/render_logic.py and the /render         *)
(* handler of bot/main.py.                                                 *)
(*                                                                         *)
(* Lengths and texture coordinates are fixed-point integers, 1000 = 1.0.   *)
(* Vertex and index numbers are 0-based as in the source; TLA+ sequences   *)
(* are 1-based, so vertex k of a mesh is vertices[k + 1].                  *)
(***************************************************************************)
EXTENDS Integers, Sequences, FiniteSets, TLC

\* ------------------------------------------------------------------ bounds

\* Largest cylinder side count tried besides the default.
MaxSides == 8
\* Sizes, heights and radii tried are HalfUnit, 2*HalfUnit, ..., MaxDim*HalfUnit.
MaxDim == 4

\* ------------------------------------------------------- program constants

\* 1.0 in fixed point.
Unit == 1000
\* 0.5 in fixed point (the UV centre and the UV half-range of the caps).
HalfUnit == 500
\* create_cylinder's defaults.
DefaultSides == 32
DefaultCoinHeight == 100
\* Floats per vertex (x, y, z, u, v) and bytes per 'f4' / 'i4' element.
FloatsPerVertex == 5
BytesPerElement == 4

\* ---------------------------------------------------------------- geometry

\* sin of a/d of a full turn, times 1000 (math.sin, by Bhaskara's rational
\* approximation, exact at the multiples of 30 and 90 degrees and within 2
\* units elsewhere).
SinTurn(a, d) ==
    LET h == (2 * a) % (2 * d)
        B(x) == (16 * Unit * x * (d - x)) \div (5 * d * d - 4 * x * (d - x))
    IN  IF h <= d THEN B(h) ELSE 0 - B(h - d)

\* math.cos and math.sin of angle = 2*pi*i/sides.
Cos(i, sides) == SinTurn(4 * i + sides, 4 * sides)
Sin(i, sides) == SinTurn(4 * i, 4 * sides)

create_cube(size) ==
    LET s == size \div 2
        vertices == <<
            \* Front face
            <<0 - s, 0 - s, s, 0, 0>>, <<s, 0 - s, s, Unit, 0>>,
            <<s, s, s, Unit, Unit>>, <<0 - s, s, s, 0, Unit>>,
            \* Back face
            <<0 - s, 0 - s, 0 - s, Unit, 0>>, <<0 - s, s, 0 - s, Unit, Unit>>,
            <<s, s, 0 - s, 0, Unit>>, <<s, 0 - s, 0 - s, 0, 0>>,
            \* Top face
            <<0 - s, s, s, 0, Unit>>, <<s, s, s, Unit, Unit>>,
            <<s, s, 0 - s, Unit, 0>>, <<0 - s, s, 0 - s, 0, 0>>,
            \* Bottom face
            <<0 - s, 0 - s, s, 0, 0>>, <<0 - s, 0 - s, 0 - s, 0, Unit>>,
            <<s, 0 - s, 0 - s, Unit, Unit>>, <<s, 0 - s, s, Unit, 0>>,
            \* Right face
            <<s, 0 - s, s, 0, 0>>, <<s, 0 - s, 0 - s, Unit, 0>>,
            <<s, s, 0 - s, Unit, Unit>>, <<s, s, s, 0, Unit>>,
            \* Left face
            <<0 - s, 0 - s, s, Unit, 0>>, <<0 - s, s, s, Unit, Unit>>,
            <<0 - s, s, 0 - s, 0, Unit>>, <<0 - s, 0 - s, 0 - s, 0, 0>> >>
        indices == <<
            0, 1, 2, 2, 3, 0,
            4, 5, 6, 6, 7, 4,
            8, 9, 10, 10, 11, 8,
            12, 13, 14, 14, 15, 12,
            16, 17, 18, 18, 19, 16,
            20, 21, 22, 22, 23, 20 >>
    IN  [vertices |-> vertices, indices |-> indices]

\* The four vertices appended for segment i by the first loop of create_cylinder.
CylinderSegmentVertices(i, sides, height, radius) ==
    LET x == (radius * Cos(i, sides)) \div Unit
        z == (radius * Sin(i, sides)) \div Unit
        u == Cos(i, sides) \div 2 + HalfUnit
        v == Sin(i, sides) \div 2 + HalfUnit
    IN  << <<x, height \div 2, z, u, v>>,
           <<x, 0 - (height \div 2), z, u, v>>,
           <<x, height \div 2, z, (Unit * i) \div sides, Unit>>,
           <<x, 0 - (height \div 2), z, (Unit * i) \div sides, 0>> >>

\* The ring vertex that follows segment i's ring vertex at offset `first`
\* (first + (i + 1) % sides * 4 in the source).
\* (NextNoWrap: the same without the modulo, the slip C7 is tried against.)
NextNoWrap(first, i, sides) == first + (i + 1) * 4
CylinderNext(first, i, sides) == first + ((i + 1) % sides) * 4

\* The twelve indices appended for segment i by the second loop.
CylinderSegmentIndices(i, sides) ==
    LET top_center_index == 0
        bottom_center_index == 1
        i_top_curr == 2 + i * 4
        i_top_next == CylinderNext(2, i, sides)
        i_bottom_curr == 3 + i * 4
        i_bottom_next == CylinderNext(3, i, sides)
        i_side_top_curr == 4 + i * 4
        i_side_bottom_curr == 5 + i * 4
        i_side_top_next == CylinderNext(4, i, sides)
        i_side_bottom_next == CylinderNext(5, i, sides)
    IN  << top_center_index, i_top_curr, i_top_next,
           bottom_center_index, i_bottom_next, i_bottom_curr,
           i_side_top_curr, i_side_bottom_curr, i_side_top_next,
           i_side_top_next, i_side_bottom_curr, i_side_bottom_next >>

RECURSIVE CylinderVertexLoop(_, _, _, _, _)
CylinderVertexLoop(acc, i, sides, height, radius) ==
    IF i >= sides THEN acc
    ELSE CylinderVertexLoop(acc \o CylinderSegmentVertices(i, sides, height, radius),
                            i + 1, sides, height, radius)

RECURSIVE CylinderIndexLoop(_, _, _)
CylinderIndexLoop(acc, i, sides) ==
    IF i >= sides THEN acc
    ELSE CylinderIndexLoop(acc \o CylinderSegmentIndices(i, sides), i + 1, sides)

create_cylinder(sides, height, radius) ==
    LET centres == << <<0, height \div 2, 0, HalfUnit, HalfUnit>>,
                      <<0, 0 - (height \div 2), 0, HalfUnit, HalfUnit>> >>
    IN  [vertices |-> CylinderVertexLoop(centres, 0, sides, height, radius),
         indices |-> CylinderIndexLoop(<<>>, 0, sides)]

\* The pyramid's index list; PyramidIndicesShort drops the last face, the
\* slip C6 is tried against.
PyramidIndicesShort == << 0, 1, 2, 2, 3, 0, 4, 5, 6, 7, 8, 9, 10, 11, 12 >>
PyramidIndices ==
    << 0, 1, 2, 2, 3, 0,
       4, 5, 6,
       7, 8, 9,
       10, 11, 12,
       13, 14, 15 >>

create_pyramid(size, height) ==
    LET s == size \div 2
        h == height
        v_apex == <<0, h, 0, HalfUnit, Unit>>
        vertices == <<
            \* Base v0..v3
            <<0 - s, 0, s, 0, 0>>, <<s, 0, s, Unit, 0>>,
            <<s, 0, 0 - s, Unit, Unit>>, <<0 - s, 0, 0 - s, 0, Unit>>,
            \* Front v4..v6
            <<0 - s, 0, s, 0, 0>>, <<s, 0, s, Unit, 0>>, v_apex,
            \* Right v7..v9
            <<s, 0, s, 0, 0>>, <<s, 0, 0 - s, Unit, 0>>, v_apex,
            \* Back v10..v12
            <<s, 0, 0 - s, 0, 0>>, <<0 - s, 0, 0 - s, Unit, 0>>, v_apex,
            \* Left v13..v15
            <<0 - s, 0, 0 - s, 0, 0>>, <<0 - s, 0, s, Unit, 0>>, v_apex >>
    IN  [vertices |-> vertices, indices |-> PyramidIndices]

\* The shape names of the MODELS dictionary.
MODELS == {"cube", "coin", "pyramid"}

\* MODELS[shape_name](): every generator called with its default parameters.
DefaultMesh(shape_name) ==
    CASE shape_name = "cube" -> create_cube(Unit)
      [] shape_name = "coin" -> create_cylinder(DefaultSides, DefaultCoinHeight, Unit)
      [] shape_name = "pyramid" -> create_pyramid(Unit, Unit)

\* ------------------------------------------------------- OffscreenRenderer

\* Bytes per pixel of a 4-component 8-bit texture.
Components == 4
\* Bytes per component that fbo.read(components=4, dtype='f1') returns.
ReadBytesPerComponent == 1
\* Bytes per element of np.float32, the dtype given to np.frombuffer.
Float32Bytes == 4

\* A matrix handed to the renderer: what built it and its argument.
Matrix(kind, arg) == [kind |-> kind, arg |-> arg]
Identity == Matrix("identity", 0)

\* A GPU object: what it is, its size in bytes, and how many release() calls
\* it has received.
Resource(kind, size) == [kind |-> kind, size |-> size, rel |-> 0]

\* No renderer constructed yet. A renderer's GPU objects all live in its own
\* context: res lists them in creation order and the fields hold positions in
\* res, 0 for None.
NoRenderer ==
    [built |-> FALSE, width |-> 0, height |-> 0, res |-> <<>>,
     ctx |-> 0, fbo |-> 0, program |-> 0, vbo |-> 0, vao |-> 0,
     model |-> Identity, view |-> Identity, projection |-> Identity,
     u_texture |-> 0, released |-> FALSE, misuse |-> {}, log |-> <<>>,
     creator |-> 0, callers |-> {}]

\* OffscreenRenderer.__init__: context, colour texture, framebuffer, program,
\* identity uniforms, no geometry.
OffscreenRenderer(width, height) ==
    [NoRenderer EXCEPT
        !.built = TRUE, !.width = width, !.height = height,
        !.res = << Resource("context", 0),
                   Resource("texture", width * height * Components),
                   Resource("framebuffer", 0),
                   Resource("program", 0) >>,
        !.ctx = 1, !.fbo = 3, !.program = 4,
        !.vbo = 0, !.vao = 0,
        !.log = <<"init">>]

\* ctx.texture(size, 4, data): a new texture in the renderer's context.
CtxTexture(r, kind, size) == [r EXCEPT !.res = Append(@, Resource(kind, size))]

\* A GPU object that has been released, or whose context has been.
Dead(r, id) == id # 0 /\ (r.res[id].rel > 0 \/ r.res[r.ctx].rel > 0)
Stale(r, ids) == \E id \in ids : Dead(r, id)

\* load_texture: Image.open(path).convert('RGBA') then ctx.texture.
load_texture(r, pixels) ==
    [CtxTexture(r, "image", pixels * Components) EXCEPT !.log = Append(@, "load_texture")]

\* load_geometry: a new vertex buffer, a new index buffer and a new vertex
\* array; self.vbo and self.vao are overwritten.
load_geometry(r, mesh) ==
    LET n == Len(r.res)
    IN  [r EXCEPT
            !.res = @ \o << Resource("vbo", Len(mesh.vertices) * FloatsPerVertex * BytesPerElement),
                            Resource("ibo", Len(mesh.indices) * BytesPerElement),
                            Resource("vao", 0) >>,
            !.vbo = n + 1,
            !.vao = n + 3,
            !.log = Append(@, "load_geometry")]

set_camera(r, view_matrix, projection_matrix) ==
    [r EXCEPT !.view = view_matrix, !.projection = projection_matrix,
              !.log = Append(@, "set_camera")]

\* One x.release() call on GPU object id.
ReleaseCall(r, id) == [r EXCEPT !.res[id].rel = @ + 1, !.log = Append(@, "release:" \o r.res[id].kind)]

\* OffscreenRenderer.release: vbo and vao when set, then fbo, then ctx.
release(r) ==
    LET r1 == IF r.vbo # 0 THEN ReleaseCall(r, r.vbo) ELSE r
        r2 == IF r1.vao # 0 THEN ReleaseCall(r1, r1.vao) ELSE r1
        r3 == ReleaseCall(r2, r2.fbo)
        r4 == ReleaseCall(r3, r3.ctx)
    IN  [r4 EXCEPT !.released = TRUE]

\* Number of elements np.frombuffer(image_data, dtype=np.float32) yields from
\* what fbo.read(components=4, dtype='f1') returns.
ReadBytes(r) == r.width * r.height * Components * ReadBytesPerComponent
FromBufferElements(r) == ReadBytes(r) \div Float32Bytes
\* Number of elements reshape(self.height, self.width, 4) needs.
ReshapeElements(r) == r.height * r.width * 4

Frame(r) == [width |-> r.width, height |-> r.height, mode |-> "RGBA", bits |-> 8]
NoFrame == [width |-> 0, height |-> 0, mode |-> "none", bits |-> 0]

\* render_frame: [r |-> the renderer afterwards, err |-> "" or the exception,
\* frame |-> the Frame returned].
\* vao.render, ctx.finish, fbo.read, in the order render_frame makes the
\* calls (ReadBeforeFinish: the read-back moved ahead of the barrier, the
\* slip C23 is tried against).
ReadBeforeFinish == <<"draw", "read", "finish">>
DrawAndRead == <<"draw", "finish", "read">>

render_frame(r, model_matrix, texture) ==
    LET bound == [r EXCEPT !.model = model_matrix, !.u_texture = 0,
                           !.log = @ \o <<"use", "clear", "write_model", "bind_texture">>]
        drawn == [bound EXCEPT !.log = @ \o DrawAndRead]
    IN  IF r.vao = 0
        THEN [r |-> bound, err |-> "AttributeError", frame |-> NoFrame]
        ELSE IF ReadBytes(r) % Float32Bytes # 0 \/ FromBufferElements(r) # ReshapeElements(r)
        THEN [r |-> drawn, err |-> "ValueError", frame |-> NoFrame]
        ELSE [r |-> [drawn EXCEPT !.log = Append(@, "frame")], err |-> "", frame |-> Frame(r)]

\* -------------------------------------------------------------------- state

\* Largest renderer width and height tried when the class is driven directly.
MaxSide == 3
\* Number of method calls made on a renderer that is driven directly.
MaxOps == 5

VARIABLES
    dlg,    \* a user's dialogue: FSM state, stored data, the event handled last
    xf,     \* the last call of a matrix builder: its arguments and what it returned
    geo,    \* the mesh last returned by a generator, with the call's arguments
    rend,   \* rend[j]: the OffscreenRenderer that job j constructed
    ops,    \* method calls made so far on a directly driven renderer
    job,    \* job[j]: the locals of job j's render_animation call
    hnd,    \* hnd[j]: the locals of job j's handle_render_command call
    fs      \* the files under OUTPUT_DIR

vars == <<dlg, xf, geo, rend, ops, job, hnd, fs>>

\* No dialogue yet: no FSM state and no stored data (a missing shape, None,
\* is written "": the code only tests `not shape`).
NoDialogue ==
    [state |-> "none", images |-> <<>>, shape |-> "",
     last |-> [event |-> "", from |-> ""]]
\* state.clear(): the FSM state and the stored data dropped.
Cleared(d) == [d EXCEPT !.state = "none", !.images = <<>>, !.shape = ""]

\* Two /render commands may be in progress at once.
Jobs == {1, 2}

\* The renderer that job j's render_animation works on: its local variable
\* `renderer`, one per call (SharedRenderer: one renderer kept at module
\* level for every call, the slip C17 is tried against).
SharedRenderer(j) == 1
RendererOf(j) == j

\* A renderer after a call made on it by job j.
By(j, r) == [r EXCEPT !.callers = @ \cup {j}]

\* ------------------------------------------------- generators, called alone

NoMesh == [vertices |-> <<>>, indices |-> <<>>]
Dims == {d * HalfUnit : d \in 1..MaxDim}
SidesTried == (3..MaxSides) \cup {DefaultSides}

GenCube ==
    /\ geo.shape = "none"
    /\ \E size \in Dims :
          geo' = [shape |-> "cube", sides |-> 0, size |-> size, height |-> 0,
                  mesh |-> create_cube(size)]
    /\ UNCHANGED <<dlg, xf, rend, ops, job, hnd, fs>>

GenCylinder ==
    /\ geo.shape = "none"
    /\ \E sides \in SidesTried, height \in Dims \cup {DefaultCoinHeight}, radius \in Dims :
          geo' = [shape |-> "coin", sides |-> sides, size |-> radius, height |-> height,
                  mesh |-> create_cylinder(sides, height, radius)]
    /\ UNCHANGED <<dlg, xf, rend, ops, job, hnd, fs>>

GenPyramid ==
    /\ geo.shape = "none"
    /\ \E size \in Dims, height \in Dims :
          geo' = [shape |-> "pyramid", sides |-> 0, size |-> size, height |-> height,
                  mesh |-> create_pyramid(size, height)]
    /\ UNCHANGED <<dlg, xf, rend, ops, job, hnd, fs>>

\* ------------------------------------------- OffscreenRenderer, driven alone

\* A call that touches an object already released is outside what the GPU
\* library defines: it is recorded, and it either raises before it changes
\* anything (`stopped`) or goes through (`done`).
Call(r, op, touched, stopped, done) ==
    /\ ops < MaxOps
    /\ ops' = ops + 1
    /\ IF Stale(r, touched)
       THEN \E through \in BOOLEAN :
               rend' = [rend EXCEPT ![1] =
                           [(IF through THEN done ELSE stopped) EXCEPT !.misuse = @ \cup {op}]]
       ELSE rend' = [rend EXCEPT ![1] = done]
    /\ UNCHANGED <<dlg, xf, geo, job, hnd, fs>>

RConstruct ==
    /\ ~rend[1].built
    /\ \E width \in 1..MaxSide, height \in 1..MaxSide :
          Call(NoRenderer, "init", {}, NoRenderer, OffscreenRenderer(width, height))

RSetCamera ==
    LET r == rend[1]
    IN  /\ r.built
        /\ Call(r, "set_camera", {r.program}, r,
                set_camera(r, Matrix("lookat", 0), Matrix("perspective", 0)))

RLoadGeometry ==
    LET r == rend[1]
    IN  /\ r.built
        /\ \E shape_name \in MODELS :
              Call(r, "load_geometry", {r.ctx, r.program}, r,
                   load_geometry(r, DefaultMesh(shape_name)))

RLoadTexture ==
    LET r == rend[1]
    IN  /\ r.built
        /\ Call(r, "load_texture", {r.ctx}, r, load_texture(r, 1))

RRenderFrame ==
    LET r == rend[1]
    IN  /\ r.built
        /\ \E texture \in {t \in 1..Len(r.res) : r.res[t].kind = "image"} :
              Call(r, "render_frame", {r.fbo, r.ctx, r.program, r.vao, texture}, r,
                   render_frame(r, Matrix("rotate", 0), texture).r)

\* A release() that meets an object already released has made its first
\* x.release() call when it stops.
RRelease ==
    LET r == rend[1]
        first == IF r.vbo # 0 THEN r.vbo ELSE r.fbo
    IN  /\ r.built
        /\ Call(r, "release", {r.vbo, r.vao, r.fbo, r.ctx},
                ReleaseCall(r, first), release(r))

\* --------------------------------------------------------- render_animation

RENDER_WIDTH == 512
RENDER_HEIGHT == 512
FPS == 30
DURATION == 5
TOTAL_FRAMES == FPS * DURATION
\* Degrees in the full turn the animation covers.
FullTurn == 360
\* Faces of the cube: the length the cube's texture list is padded to.
CubeFaces == 6

\* Largest number of image paths handed to render_animation.
MaxImages == 7

Users == {1, 2}
\* input_<i>.png in the temporary directory of a user.
Path(user, i) == <<"in", user, i>>
\* <shape>_<user>_<second>.gif in OUTPUT_DIR, for the seconds a job can end in.
OutputPath(user, second) == <<"out", user, second>>
Seconds == {0, 1}
Paths == ({"in"} \X Users \X (0..(MaxImages - 1))) \cup ({"out"} \X Users \X Seconds)
NoFile == [state |-> "absent", owner |-> 0]

\* Image.open(path).convert('RGBA') succeeds on a completely written image.
Decodes(path) == fs[path].state = "complete"

NoJob ==
    [pc |-> "idle", shape_name |-> "", images_paths |-> <<>>, textures |-> <<>>,
     decoded |-> <<>>, frames |-> <<>>, frame_num |-> 0, angles |-> <<>>,
     err |-> "", reads |-> <<>>]

\* A call render_animation(images_paths, shape_name, output_path) beginning.
NewJob(images_paths, shape_name) ==
    [NoJob EXCEPT !.pc = "start", !.images_paths = images_paths, !.shape_name = shape_name]

\* textures[:6] (TruncateNone: the truncation forgotten, the slip C4 is tried
\* against.)
TruncateNone(textures) == textures
Truncate(textures) == SubSeq(textures, 1, IF Len(textures) < CubeFaces THEN Len(textures) ELSE CubeFaces)
\* The cube's padding loop runs while len(textures) < 6.
PadContinues(textures) == Len(textures) < CubeFaces

\* angle = (frame_num / TOTAL_FRAMES) * 360.0, in thousandths of a degree.
Angle(frame_num) == (frame_num * FullTurn * Unit) \div TOTAL_FRAMES

\* 1. Initialize Renderer
Construct(j) ==
    /\ job[j].pc = "start"
    /\ rend' = [rend EXCEPT ![RendererOf(j)] =
                    [By(j, OffscreenRenderer(RENDER_WIDTH, RENDER_HEIGHT)) EXCEPT !.creator = j]]
    /\ job' = [job EXCEPT ![j].pc = "camera"]
    /\ UNCHANGED <<dlg, xf, geo, ops, hnd, fs>>

\* 2. Setup Camera
SetCamera(j) ==
    /\ job[j].pc = "camera"
    /\ rend' = [rend EXCEPT ![RendererOf(j)] =
                    By(j, set_camera(@, Matrix("lookat", 0), Matrix("perspective", 0)))]
    /\ job' = [job EXCEPT ![j].pc = "model"]
    /\ UNCHANGED <<dlg, xf, geo, ops, hnd, fs>>

\* Whether the shape check of step 3 lets the name through (AnyShape: the
\* check left out, the slip C8 is tried against).
AnyShape(shape_name) == TRUE
KnownShape(shape_name) == shape_name \in MODELS

\* 3. Load Model: an unknown shape raises ValueError, with the renderer left
\* as it is; MODELS[shape_name] raises KeyError for a name that is no key.
LoadModel(j) ==
    /\ job[j].pc = "model"
    /\ IF ~KnownShape(job[j].shape_name)
       THEN /\ job' = [job EXCEPT ![j].pc = "raised", ![j].err = "ValueError: Unknown shape"]
            /\ UNCHANGED rend
       ELSE IF job[j].shape_name \notin MODELS
       THEN /\ job' = [job EXCEPT ![j].pc = "raised", ![j].err = "KeyError"]
            /\ UNCHANGED rend
       ELSE /\ rend' = [rend EXCEPT ![RendererOf(j)] =
                          By(j, load_geometry(@, DefaultMesh(job[j].shape_name)))]
            /\ job' = [job EXCEPT ![j].pc = "textures"]
    /\ UNCHANGED <<dlg, xf, geo, ops, hnd, fs>>

\* 4. Load Textures, one path per step: the decoded image, or the magenta
\* placeholder when opening or decoding it raises.
LoadTexture(j) ==
    LET J == job[j]
        path == J.images_paths[Len(J.textures) + 1]
        kind == IF Decodes(path) THEN "image" ELSE "magenta"
    IN  /\ J.pc = "textures"
        /\ Len(J.textures) < Len(J.images_paths)
        /\ rend' = [rend EXCEPT ![RendererOf(j)] = By(j, CtxTexture(@, kind, Components))]
        /\ job' = [job EXCEPT ![j].textures = Append(@, Len(rend[RendererOf(j)].res) + 1),
                              ![j].decoded = Append(@, Len(rend[RendererOf(j)].res) + 1),
                              ![j].reads = Append(@, fs[path])]
        /\ UNCHANGED <<dlg, xf, geo, ops, hnd, fs>>

\* The end of the loading loop and the test of the cube's texture count.
TexturesLoaded(j) ==
    LET J == job[j]
    IN  /\ J.pc = "textures"
        /\ Len(J.textures) = Len(J.images_paths)
        /\ job' = [job EXCEPT ![j].pc =
                      IF J.shape_name = "cube" /\ Len(J.textures) < CubeFaces
                      THEN "pad" ELSE "fallback"]
        /\ UNCHANGED <<dlg, xf, geo, rend, ops, hnd, fs>>

\* while len(textures) < 6: textures.extend(textures)
PadStep(j) ==
    /\ job[j].pc = "pad"
    /\ PadContinues(job[j].textures)
    /\ job' = [job EXCEPT ![j].textures = @ \o @]
    /\ UNCHANGED <<dlg, xf, geo, rend, ops, hnd, fs>>

\* textures = textures[:6]
PadDone(j) ==
    /\ job[j].pc = "pad"
    /\ ~PadContinues(job[j].textures)
    /\ job' = [job EXCEPT ![j].textures = Truncate(@), ![j].pc = "fallback"]
    /\ UNCHANGED <<dlg, xf, geo, rend, ops, hnd, fs>>

\* The white placeholder for a shape other than the cube with no texture.
Fallback(j) ==
    LET J == job[j]
        none == J.shape_name # "cube" /\ Len(J.textures) = 0
    IN  /\ J.pc = "fallback"
        /\ rend' = [rend EXCEPT ![RendererOf(j)] =
                        IF none THEN By(j, CtxTexture(@, "white", Components)) ELSE @]
        /\ job' = [job EXCEPT ![j].pc = "loop",
                              ![j].textures = IF none THEN <<Len(rend[RendererOf(j)].res) + 1>>
                                              ELSE @]
        /\ UNCHANGED <<dlg, xf, geo, ops, hnd, fs>>

\* 6. Cleanup: every entry of textures released, then the renderer.
RECURSIVE ReleaseTextures(_, _)
ReleaseTextures(r, textures) ==
    IF textures = <<>> THEN r
    ELSE ReleaseTextures(ReleaseCall(r, Head(textures)), Tail(textures))

\* 5. Render Loop, one frame per step, and after the last frame the cleanup
\* and the return. An exception of render_frame leaves render_animation at
\* once.
RenderLoop(j) ==
    LET J == job[j]
        out == render_frame(rend[RendererOf(j)], Matrix("rotate", Angle(J.frame_num)),
                            J.textures[1])
    IN  /\ J.pc = "loop"
        /\ IF J.frame_num < TOTAL_FRAMES
           THEN IF J.textures = <<>>
                THEN /\ job' = [job EXCEPT ![j].pc = "raised", ![j].err = "IndexError"]
                     /\ UNCHANGED rend
                ELSE /\ rend' = [rend EXCEPT ![RendererOf(j)] = By(j, out.r)]
                     /\ job' = [job EXCEPT
                           ![j].angles = Append(@, Angle(J.frame_num)),
                           ![j].pc = IF out.err # "" THEN "raised" ELSE @,
                           ![j].err = out.err,
                           ![j].frames = IF out.err # "" THEN @ ELSE Append(@, out.frame),
                           ![j].frame_num = IF out.err # "" THEN @ ELSE @ + 1]
           ELSE /\ rend' = [rend EXCEPT ![RendererOf(j)] =
                              By(j, release(ReleaseTextures(@, J.textures)))]
                /\ job' = [job EXCEPT ![j].pc = "returned"]
        /\ UNCHANGED <<dlg, xf, geo, ops, hnd, fs>>

RenderAnimation(j) ==
    \/ Construct(j)
    \/ SetCamera(j)
    \/ LoadModel(j)
    \/ LoadTexture(j)
    \/ TexturesLoaded(j)
    \/ PadStep(j)
    \/ PadDone(j)
    \/ Fallback(j)
    \/ RenderLoop(j)

\* ---------------------------------------------------- handle_render_command

\* The dialogue lets /render through with 3 or 4 stored images.
MinUpload == 3
MaxUpload == 4

NoHandler ==
    [pc |-> "idle", user_id |-> 0, shape |-> "", images_data |-> 0,
     image_paths |-> <<>>, output_path |-> <<>>, err |-> "", clobbered |-> {}]

\* A job that has begun and has not left its handler.
Active(j) == hnd[j].pc \notin {"idle", "start", "returned", "done"}

\* The guard on the stored data, the start message and os.makedirs.
HStart(j) ==
    LET H == hnd[j]
    IN  /\ H.pc = "start"
        /\ hnd' = [hnd EXCEPT ![j].pc =
                      IF H.shape = "" \/ H.images_data = 0 THEN "returned" ELSE "download"]
        /\ UNCHANGED <<dlg, xf, geo, rend, ops, job, fs>>

\* download_image up to open(destination_path, 'wb'): the file is created
\* or truncated. Any status other than 200 ends the handler.
HDownloadOpen(j) ==
    LET H == hnd[j]
        path == Path(H.user_id, Len(H.image_paths))
        old == fs[path].owner
    IN  /\ H.pc = "download"
        /\ Len(H.image_paths) < H.images_data
        /\ \E status \in {200, 404} :
              IF status = 200
              THEN /\ fs' = [fs EXCEPT ![path] = [state |-> "partial", owner |-> j]]
                   /\ hnd' = [hnd EXCEPT
                         ![j].pc = "writing",
                         ![j].clobbered = IF old \notin {0, j} /\ Active(old)
                                          THEN @ \cup {path} ELSE @]
              ELSE /\ hnd' = [hnd EXCEPT ![j].pc = "returned", ![j].err = "download"]
                   /\ UNCHANGED fs
        /\ UNCHANGED <<dlg, xf, geo, rend, ops, job>>

\* The last chunk written and the file closed; the path joins image_paths.
HDownloadWrite(j) ==
    LET H == hnd[j]
        path == Path(H.user_id, Len(H.image_paths))
    IN  /\ H.pc = "writing"
        /\ fs' = [fs EXCEPT ![path].state = IF fs[path].owner = j THEN "complete" ELSE @]
        /\ hnd' = [hnd EXCEPT ![j].pc = "download", ![j].image_paths = Append(@, path)]
        /\ UNCHANGED <<dlg, xf, geo, rend, ops, job>>

\* asyncio.to_thread(render_animation, image_paths, shape, temp_dir)
HRender(j) ==
    LET H == hnd[j]
    IN  /\ H.pc = "download"
        /\ Len(H.image_paths) = H.images_data
        /\ job' = [job EXCEPT ![j] = NewJob(H.image_paths, H.shape)]
        /\ hnd' = [hnd EXCEPT ![j].pc = "rendering"]
        /\ UNCHANGED <<dlg, xf, geo, rend, ops, fs>>

\* os.remove of every input, os.rmdir and os.remove of the output: the
\* files afterwards, or the files as they are when one of the calls raises.
Removed(H) ==
    [p \in Paths |->
        IF p = H.output_path \/ \E i \in 1..Len(H.image_paths) : p = H.image_paths[i]
        THEN NoFile ELSE fs[p]]
RemoveRaises(H) ==
    \/ \E i \in 1..Len(H.image_paths) : fs[H.image_paths[i]].state = "absent"
    \/ \E p \in Paths : /\ p[1] = "in" /\ p[2] = H.user_id /\ fs[p].state # "absent"
                        /\ \A i \in 1..Len(H.image_paths) : p # H.image_paths[i]
    \/ fs[H.output_path].state = "absent"

\* Where the handler goes after the render: the except branch returns, and
\* only a returned frame list goes on to create_gif (EncodeAnyway: the
\* `return` of the except branch left out, the slip C12 is tried against).
EncodeAnyway(outcome) == "gif"
AfterRender(outcome) == IF outcome = "raised" THEN "returned" ELSE "gif"

\* The handler resumed after one of its awaits: after the render (an
\* exception ends it), after create_gif (an exception ends it), and after the
\* document is sent (cleanup, state.clear()).
HResume(j) ==
    LET H == hnd[j]
    IN  /\ \/ /\ H.pc = "rendering"
              /\ job[j].pc \in {"raised", "returned"}
              /\ hnd' = [hnd EXCEPT
                    ![j].pc = AfterRender(job[j].pc),
                    ![j].err = IF job[j].pc = "raised" THEN "render" ELSE @]
              /\ UNCHANGED fs
           \/ /\ H.pc = "gif"
              /\ \E second \in Seconds, written \in BOOLEAN :
                    LET path == OutputPath(H.user_id, second)
                    IN  /\ fs' = [fs EXCEPT ![path] =
                                    [state |-> IF written THEN "complete" ELSE "partial",
                                     owner |-> j]]
                        /\ hnd' = [hnd EXCEPT
                              ![j].output_path = path,
                              ![j].pc = IF written THEN "cleanup" ELSE "returned",
                              ![j].err = IF written THEN @ ELSE "gif",
                              ![j].clobbered = IF fs[path].owner \notin {0, j}
                                                  /\ Active(fs[path].owner)
                                               THEN @ \cup {path} ELSE @]
           \/ /\ H.pc = "cleanup"
              /\ IF RemoveRaises(H)
                 THEN /\ hnd' = [hnd EXCEPT ![j].pc = "returned", ![j].err = "cleanup"]
                      /\ UNCHANGED fs
                 ELSE /\ hnd' = [hnd EXCEPT ![j].pc = "done"]
                      /\ fs' = Removed(H)
        /\ dlg' = IF H.pc = "cleanup" /\ ~RemoveRaises(H) THEN Cleared(dlg) ELSE dlg
        /\ UNCHANGED <<xf, geo, rend, ops, job>>

Handler(j) ==
    \/ HStart(j)
    \/ HDownloadOpen(j)
    \/ HDownloadWrite(j)
    \/ HRender(j)
    \/ HResume(j)

\* ----------------------------------------------------------- specifications

NoXf == [op |-> "none", angle |-> 0, v |-> <<0, 0, 0>>, err |-> "", m |-> <<>>]
NoGeo == [shape |-> "none", sides |-> 0, size |-> 0, height |-> 0, mesh |-> NoMesh]
NoFiles == [p \in Paths |-> NoFile]

\* Shape names handed to render_animation.
ShapesTried == MODELS \cup {"sphere", "Cube"}

\* One call of render_animation with any shape name and up to MaxImages
\* paths, each of a file that decodes or of one that does not.
Init ==
    /\ dlg = NoDialogue
    /\ xf = NoXf
    /\ geo = NoGeo
    /\ rend = [j \in Jobs |-> NoRenderer]
    /\ ops = 0
    /\ hnd = [j \in Jobs |-> NoHandler]
    /\ \E n \in 0..MaxImages, shape_name \in ShapesTried :
          /\ job = [j \in Jobs |->
                      IF j = 1 THEN NewJob([i \in 1..n |-> Path(1, i - 1)], shape_name)
                      ELSE NoJob]
          /\ \E good \in SUBSET (0..(n - 1)) :
                fs = [p \in Paths |->
                        IF p[1] = "in" /\ p[2] = 1 /\ p[3] < n
                        THEN [state |-> IF p[3] \in good THEN "complete" ELSE "corrupt",
                              owner |-> 0]
                        ELSE NoFile]

Next == \E j \in Jobs : RenderAnimation(j)

Spec == Init /\ [][Next]_vars

\* The generators called with every parameter tried.
InitGeom ==
    /\ dlg = NoDialogue
    /\ xf = NoXf
    /\ geo = NoGeo
    /\ rend = [j \in Jobs |-> NoRenderer]
    /\ ops = 0
    /\ job = [j \in Jobs |-> NoJob]
    /\ hnd = [j \in Jobs |-> NoHandler]
    /\ fs = NoFiles

NextGeom == GenCube \/ GenCylinder \/ GenPyramid

SpecGeom == InitGeom /\ [][NextGeom]_vars

\* One OffscreenRenderer and up to MaxOps calls of its methods, in any order.
NextRenderer ==
    RConstruct \/ RSetCamera \/ RLoadGeometry \/ RLoadTexture \/ RRenderFrame \/ RRelease

SpecRenderer == InitGeom /\ [][NextRenderer]_vars

\* Two /render commands handled at once, of one user or of two; the stored
\* shape and images of a user are the same for both of that user's commands.
\* The stored shape is what followed "shape_" in the callback data.
InitBot ==
    /\ dlg = NoDialogue
    /\ xf = NoXf
    /\ geo = NoGeo
    /\ rend = [j \in Jobs |-> NoRenderer]
    /\ ops = 0
    /\ job = [j \in Jobs |-> NoJob]
    /\ fs = NoFiles
    /\ \E user \in [Jobs -> Users], shape \in [Users -> MODELS \cup {"sphere"}],
          images \in [Users -> MinUpload..MaxUpload] :
          hnd = [j \in Jobs |->
                   [NoHandler EXCEPT !.pc = "start", !.user_id = user[j],
                                     !.shape = shape[user[j]],
                                     !.images_data = images[user[j]]]]

NextBot == \E j \in Jobs : Handler(j) \/ RenderAnimation(j)

SpecBot == InitBot /\ [][NextBot]_vars

\* ------------------------------------------------------------------- claims

Ended(j) == job[j].pc \in {"raised", "returned"}

\* C1: on every exit path of render_animation (return or exception) release
\* has been called on the renderer the job constructed.
C1_ReleasedOnEveryExit ==
    \A j \in Jobs : Ended(j) /\ rend[j].built => rend[j].released

\* A call that left through the unknown-shape error with its renderer built.
C1_ExitReached ==
    \E j \in Jobs : job[j].pc = "raised" /\ job[j].err = "ValueError: Unknown shape"
                    /\ rend[j].built

\* C2: a call of render_animation with a shape of MODELS ends having called
\* render_frame TOTAL_FRAMES times, for frame_num = 0, 1, ... in order with
\* angle = frame_num / TOTAL_FRAMES * 360 (0 first, strictly increasing, below
\* 360), and holding one frame per call.
C2_OneFramePerStep ==
    \A j \in Jobs :
        Ended(j) /\ job[j].shape_name \in MODELS =>
            /\ Len(job[j].angles) = TOTAL_FRAMES
            /\ Len(job[j].frames) = TOTAL_FRAMES
            /\ \A f \in 1..Len(job[j].angles) :
                  /\ job[j].angles[f] = Angle(f - 1)
                  /\ job[j].angles[f] < FullTurn * Unit
                  /\ f > 1 => job[j].angles[f - 1] < job[j].angles[f]
            /\ job[j].angles[1] = 0

\* A call with a known shape that has ended.
C2_LoopEnded ==
    \E j \in Jobs : Ended(j) /\ job[j].shape_name \in MODELS /\ Len(job[j].angles) >= 1

\* C3: for every width >= 1 and height >= 1 the buffer render_frame reads back
\* holds the number of elements its reshape to (height, width, 4) needs, so
\* every read-back is followed by the return of a width x height RGBA8 Frame.
C3_ReadBackMakesFrame ==
    \A j \in Jobs :
        LET log == rend[j].log
        IN  \A i \in 1..Len(log) :
               log[i] = "read" =>
                  /\ FromBufferElements(rend[j]) = ReshapeElements(rend[j])
                  /\ i < Len(log)
                  /\ log[i + 1] = "frame"

\* A render_frame call that has read the colour target back.
C3_ReadBack ==
    \E j \in Jobs : \E i \in 1..Len(rend[j].log) :
        rend[j].log[i] = "read" /\ rend[j].width >= 1 /\ rend[j].height >= 1

\* Texture-list resolution is over when the render loop is reached.
Resolved(j) == job[j].pc = "loop"

\* C4: the resolved texture list against the n decoded textures t0..t(n-1):
\* cube and 1 <= n < 6: length 6 with entry i equal to t(i mod n); cube and
\* n >= 6: unchanged; not cube and n = 0: exactly one white placeholder; not
\* cube and n >= 1: unchanged.
C4_TextureResolution ==
    \A j \in Jobs :
        Resolved(j) =>
            LET J == job[j]
                n == Len(J.decoded)
                cube == J.shape_name = "cube"
            IN  /\ n = Len(J.images_paths)
                /\ cube /\ 1 <= n /\ n < CubeFaces =>
                      /\ Len(J.textures) = CubeFaces
                      /\ \A i \in 0..(CubeFaces - 1) :
                            J.textures[i + 1] = J.decoded[(i % n) + 1]
                /\ cube /\ n >= CubeFaces => J.textures = J.decoded
                /\ ~cube /\ n = 0 =>
                      /\ Len(J.textures) = 1
                      /\ rend[j].res[J.textures[1]].kind = "white"
                /\ ~cube /\ n >= 1 => J.textures = J.decoded

\* A cube given 3 images, resolved to 6 textures.
C4_CubeOfThree ==
    \E j \in Jobs : /\ Resolved(j) /\ job[j].shape_name = "cube"
                    /\ Len(job[j].decoded) = 3 /\ Len(job[j].textures) = 6

\* ---- geometry of a mesh

\* Position of vertex k (0-based).
Pos(mesh, k) == <<mesh.vertices[k + 1][1], mesh.vertices[k + 1][2], mesh.vertices[k + 1][3]>>
Minus(a, b) == <<a[1] - b[1], a[2] - b[2], a[3] - b[3]>>
Cross(a, b) ==
    <<a[2] * b[3] - a[3] * b[2], a[3] * b[1] - a[1] * b[3], a[1] * b[2] - a[2] * b[1]>>
Dot(a, b) == a[1] * b[1] + a[2] * b[2] + a[3] * b[3]
\* A vector shortened a hundredfold, to keep the products in range.
Short(a) == <<a[1] \div 100, a[2] \div 100, a[3] \div 100>>

Triangles(mesh) == 0..((Len(mesh.indices) \div 3) - 1)
Corner(mesh, t, c) == mesh.indices[3 * t + c]

\* A point strictly inside the solid of the generated mesh.
Inside == IF geo.shape = "pyramid" THEN <<0, geo.height \div 2, 0>> ELSE <<0, 0, 0>>

\* Triangle t is counter-clockwise seen from outside: (v1 - v0) x (v2 - v0)
\* points away from the interior.
Outward(mesh, t) ==
    LET v0 == Pos(mesh, Corner(mesh, t, 1))
        v1 == Pos(mesh, Corner(mesh, t, 2))
        v2 == Pos(mesh, Corner(mesh, t, 3))
    IN  Dot(Short(Cross(Minus(v1, v0), Minus(v2, v0))), Minus(v0, Inside)) > 0

\* C5: every triangle of every generated mesh is wound counter-clockwise as
\* seen from outside the solid.
C5_OutwardWinding ==
    geo.shape # "none" => \A t \in Triangles(geo.mesh) : Outward(geo.mesh, t)

\* A pyramid whose first base triangle faces the apex, and not outward.
C5_PyramidBaseInward ==
    geo.shape = "pyramid" /\ ~Outward(geo.mesh, 0)

\* C6: create_cube returns 24 vertices and 36 indices, create_pyramid 16 and
\* 18, create_cylinder 2 + 4*sides and 12*sides.
C6_MeshSizes ==
    /\ geo.shape = "cube" =>
          Len(geo.mesh.vertices) = 24 /\ Len(geo.mesh.indices) = 36
    /\ geo.shape = "pyramid" =>
          Len(geo.mesh.vertices) = 16 /\ Len(geo.mesh.indices) = 18
    /\ geo.shape = "coin" =>
          /\ Len(geo.mesh.vertices) = 2 + 4 * geo.sides
          /\ Len(geo.mesh.indices) = 12 * geo.sides

\* The cylinder of 8 sides: 34 vertices and 96 indices.
C6_EightSides ==
    /\ geo.shape = "coin" /\ geo.sides = 8
    /\ Len(geo.mesh.vertices) = 34 /\ Len(geo.mesh.indices) = 96

\* C7: every index is within the vertices and the index count is a multiple
\* of 3; in the cylinder, for every segment i with the wrap-around one, the
\* top-cap triangle is (top centre, top ring i, top ring i+1), the bottom-cap
\* triangle takes the bottom centre and the bottom ring of i and i+1, and the
\* side triangles take only side vertices of segments i and (i+1) mod sides.
C7_IndicesInRange ==
    geo.shape # "none" =>
        LET ind == geo.mesh.indices
            S == geo.sides
        IN  /\ Len(ind) % 3 = 0
            /\ \A k \in 1..Len(ind) : 0 <= ind[k] /\ ind[k] < Len(geo.mesh.vertices)
            /\ geo.shape = "coin" =>
                  \A i \in 0..(S - 1) :
                     LET at(k) == ind[12 * i + k]
                         nx == (i + 1) % S
                     IN  /\ at(1) = 0
                         /\ {at(2), at(3)} = {2 + 4 * i, 2 + 4 * nx}
                         /\ at(4) = 1
                         /\ {at(5), at(6)} = {3 + 4 * i, 3 + 4 * nx}
                         /\ {at(k) : k \in 7..12} =
                               {4 + 4 * i, 5 + 4 * i, 4 + 4 * nx, 5 + 4 * nx}

\* A cylinder whose last segment wraps round to the first ring vertices.
C7_WrapAround ==
    /\ geo.shape = "coin" /\ geo.sides >= 3
    /\ geo.mesh.indices[12 * (geo.sides - 1) + 3] = 2

\* C8: with a shape name outside MODELS render_animation fails with the
\* unknown-shape error at the shape check: it never calls render_frame, holds
\* no frame, and its handler writes no output artifact.
C8_UnknownShapeFails ==
    \A j \in Jobs :
        job[j].pc # "idle" /\ job[j].shape_name \notin MODELS =>
            /\ job[j].pc \in {"start", "camera", "model", "raised"}
            /\ job[j].pc = "raised" => job[j].err = "ValueError: Unknown shape"
            /\ job[j].angles = <<>>
            /\ job[j].frames = <<>>
            /\ \A i \in 1..Len(rend[j].log) :
                  rend[j].log[i] \notin {"use", "clear", "draw", "read", "frame"}
            /\ hnd[j].pc \notin {"gif", "cleanup", "done"}
            /\ \A p \in Paths : p[1] = "out" => fs[p].owner # j

\* A /render of an unknown shape whose render_animation has raised and whose
\* handler has returned.
C8_UnknownShapeRaised ==
    \E j \in Jobs : /\ job[j].shape_name = "sphere" /\ job[j].pc = "raised"
                    /\ hnd[j].pc = "returned" /\ hnd[j].err = "render"

\* C9: Uninitialized -> Configured -> Released, Released terminal: once
\* release has been called no method call uses a GPU object of the renderer.
C9_NothingAfterRelease ==
    \A j \in Jobs : rend[j].misuse = {}

\* A renderer that was constructed and then released.
C9_Released ==
    \E j \in Jobs : rend[j].built /\ rend[j].released

\* C10: two /render commands handled at the same time share no file: no job
\* truncates a file another job in progress has written, and no job's
\* render_animation opens a file another job has written.
C10_JobsShareNothing ==
    \A j \in Jobs :
        /\ hnd[j].clobbered = {}
        /\ \A i \in 1..Len(job[j].reads) : job[j].reads[i].owner \in {0, j}

\* Two commands of one user in progress at once.
C10_SameUserAtOnce ==
    /\ hnd[1].user_id = hnd[2].user_id
    /\ Active(1) /\ Active(2)

\* ---- C11..C20

\* The input paths of job j whose file does not decode.
Undecodable(j) ==
    {i \in 1..Len(job[j].images_paths) : ~Decodes(job[j].images_paths[i])}

\* C11: a call of render_animation with a shape of MODELS and exactly one
\* input image that fails to decode is not aborted: the list loaded before
\* the padding has one texture per input path in input order, the magenta
\* placeholder in the failed slot and only there, and the call ends having
\* produced all TOTAL_FRAMES frames.
C11_PlaceholderAndAllFrames ==
    \A j \in Jobs :
        LET J == job[j]
        IN  J.shape_name \in MODELS /\ Cardinality(Undecodable(j)) = 1 =>
                /\ J.pc \in {"pad", "fallback", "loop", "raised", "returned"} =>
                      /\ Len(J.decoded) = Len(J.images_paths)
                      /\ \A i \in 1..Len(J.decoded) :
                            /\ rend[j].res[J.decoded[i]].kind =
                                  (IF i \in Undecodable(j) THEN "magenta" ELSE "image")
                            /\ \A k \in 1..Len(J.decoded) :
                                  i < k => J.decoded[i] < J.decoded[k]
                /\ Ended(j) => J.pc = "returned" /\ Len(J.frames) = TOTAL_FRAMES

\* A call with three input images, the second undecodable, that has loaded
\* its textures and ended.
C11_OneBadImage ==
    \E j \in Jobs :
        /\ Ended(j) /\ job[j].shape_name \in MODELS
        /\ Len(job[j].images_paths) = 3 /\ Undecodable(j) = {2}
        /\ Len(job[j].decoded) = 3
        /\ rend[j].res[job[j].decoded[2]].kind = "magenta"

\* The output files that exist, complete or partial.
Artifacts == {p \in {"out"} \X Users \X Seconds : fs[p].state # "absent"}

MaxQuarter == 4
MaxAxis == 2
QuarterTurn == FullTurn \div 4

\* A float32 value: a number, or NaN, which every operation hands on.  At the
\* angles and axes tried every entry of a matrix is -1, 0 or 1 to within
\* float rounding, and is kept as that integer.
Num(n) == [nan |-> FALSE, n |-> n]
NaN == [nan |-> TRUE, n |-> 0]
FAdd(a, b) == IF a.nan \/ b.nan THEN NaN ELSE Num(a.n + b.n)
FSub(a, b) == IF a.nan \/ b.nan THEN NaN ELSE Num(a.n - b.n)
FMul(a, b) == IF a.nan \/ b.nan THEN NaN ELSE Num(a.n * b.n)

\* cos and sin of np.radians(angle), angle a multiple of a quarter turn.
CosDeg(angle) ==
    CASE angle % FullTurn = 0 -> 1
      [] angle % FullTurn = QuarterTurn -> 0
      [] angle % FullTurn = 2 * QuarterTurn -> -1
      [] angle % FullTurn = 3 * QuarterTurn -> 0
SinDeg(angle) ==
    CASE angle % FullTurn = 0 -> 0
      [] angle % FullTurn = QuarterTurn -> 1
      [] angle % FullTurn = 2 * QuarterTurn -> 0
      [] angle % FullTurn = 3 * QuarterTurn -> -1

Abs(n) == IF n < 0 THEN 0 - n ELSE n

\* np.linalg.norm(axis) of a vector along a coordinate axis, or of zero.
Norm(axis) == Abs(axis[1]) + Abs(axis[2]) + Abs(axis[3])

\* axis / np.linalg.norm(axis): numpy divides 0 by 0 to NaN with a warning
\* and raises nothing.
Normalized(axis) ==
    [i \in 1..3 |-> IF Norm(axis) = 0 THEN NaN ELSE Num(axis[i] \div Norm(axis))]

\* The .T of a 4x4 array (NoTranspose: the .T left off, the slip C15 is tried
\* against).
NoTranspose(m) == m
Transpose(m) == [i \in 1..4 |-> [k \in 1..4 |-> m[k][i]]]

\* rotate(angle, axis): the array as written, then transposed.
rotate(angle, axis) ==
    LET c == Num(CosDeg(angle))
        s == Num(SinDeg(angle))
        t == FSub(Num(1), c)
        x == Normalized(axis)[1]
        y == Normalized(axis)[2]
        z == Normalized(axis)[3]
        txx == FMul(FMul(t, x), x)
        txy == FMul(FMul(t, x), y)
        txz == FMul(FMul(t, x), z)
        tyy == FMul(FMul(t, y), y)
        tyz == FMul(FMul(t, y), z)
        tzz == FMul(FMul(t, z), z)
        sx == FMul(s, x)
        sy == FMul(s, y)
        sz == FMul(s, z)
    IN  Transpose(<< <<FAdd(txx, c),  FSub(txy, sz), FAdd(txz, sy), Num(0)>>,
                     <<FAdd(txy, sz), FAdd(tyy, c),  FAdd(tyz, sx), Num(0)>>,
                     <<FSub(txz, sy), FAdd(tyz, sx), FAdd(tzz, c),  Num(0)>>,
                     <<Num(0),        Num(0),        Num(0),        Num(1)>> >>)

Angles == {q * QuarterTurn : q \in (0 - MaxQuarter)..MaxQuarter}
Axes ==
    {a \in ((0 - MaxAxis)..MaxAxis) \X ((0 - MaxAxis)..MaxAxis) \X ((0 - MaxAxis)..MaxAxis) :
        Cardinality({i \in 1..3 : a[i] # 0}) <= 1}

\* One call rotate(angle, axis); rotate has no raise statement, so err stays
\* empty and the array is returned.
Rotate ==
    /\ xf.op = "none"
    /\ \E angle \in Angles, axis \in Axes :
          xf' = [op |-> "rotate", angle |-> angle, v |-> axis, err |-> "",
                 m |-> rotate(angle, axis)]
    /\ UNCHANGED <<dlg, geo, rend, ops, job, hnd, fs>>

\* Translations tried have components from 0 to MaxVec.
MaxVec == 1
Vecs == (0..MaxVec) \X (0..MaxVec) \X (0..MaxVec)
\* Scale factors and points tried.
Scales == {<<2, 2, 2>>, <<1, 2, 3>>}
Points == {<<1, 0, 0>>, <<1, 2, 3>>}

\* translate(v): the array as written, v in the fourth column, then
\* transposed (TranslateAsWritten: the .T left off, the array as written).
TranslateAsWritten(v) ==
    << <<Num(1), Num(0), Num(0), Num(v[1])>>,
       <<Num(0), Num(1), Num(0), Num(v[2])>>,
       <<Num(0), Num(0), Num(1), Num(v[3])>>,
       <<Num(0), Num(0), Num(0), Num(1)>> >>
translate(v) == Transpose(TranslateAsWritten(v))

\* scale(v): the diagonal array, then transposed.
scale(v) ==
    Transpose(<< <<Num(v[1]), Num(0), Num(0), Num(0)>>,
                 <<Num(0), Num(v[2]), Num(0), Num(0)>>,
                 <<Num(0), Num(0), Num(v[3]), Num(0)>>,
                 <<Num(0), Num(0), Num(0), Num(1)>> >>)

\* The product a @ b of two 4x4 arrays.
MatMul(a, b) ==
    [i \in 1..4 |-> [k \in 1..4 |->
        FAdd(FAdd(FMul(a[i][1], b[1][k]), FMul(a[i][2], b[2][k])),
             FAdd(FMul(a[i][3], b[3][k]), FMul(a[i][4], b[4][k])))]]

\* M . v for a 4x4 array and a column vector of 4 numbers.
MatVec(m, v) ==
    [i \in 1..4 |-> FAdd(FAdd(FMul(m[i][1], v[1]), FMul(m[i][2], v[2])),
                         FAdd(FMul(m[i][3], v[3]), FMul(m[i][4], v[4])))]

\* The three builders called, their results multiplied as T @ R @ S and the
\* product applied to the column vector (p, 1).
Compose ==
    /\ xf.op = "none"
    /\ \E t \in Vecs, angle \in Angles, axis \in Axes \ {<<0, 0, 0>>},
          s \in Scales, p \in Points :
          LET M == MatMul(MatMul(translate(t), rotate(angle, axis)), scale(s))
          IN  xf' = [op |-> "compose", angle |-> angle, v |-> axis, err |-> "",
                     m |-> M, t |-> t, s |-> s, p |-> p,
                     out |-> MatVec(M, <<Num(p[1]), Num(p[2]), Num(p[3]), Num(1)>>)]
    /\ UNCHANGED <<dlg, geo, rend, ops, job, hnd, fs>>

NextXform == Rotate \/ Compose
SpecXform == InitGeom /\ [][NextXform]_vars

\* C13: rotate called with an axis of zero length fails with an invalid-axis
\* error, at every angle, and returns no matrix.
C13_ZeroAxisFails ==
    xf.op = "rotate" /\ xf.v = <<0, 0, 0>> => xf.err = "InvalidAxisError" /\ xf.m = <<>>

\* A call of rotate with the zero axis that has returned.
C13_ZeroAxisCalled ==
    xf.op = "rotate" /\ xf.v = <<0, 0, 0>> /\ xf.angle = QuarterTurn

\* The axis-angle (Rodrigues) rotation matrix about the unit vector along
\* axis, for column vectors and a right-handed turn:
\* R = c I + s [u]x + (1 - c) u u^T.
Rodrigues(angle, axis) ==
    LET c == CosDeg(angle)
        s == SinDeg(angle)
        t == 1 - c
        x == axis[1] \div Norm(axis)
        y == axis[2] \div Norm(axis)
        z == axis[3] \div Norm(axis)
    IN  << <<Num(t*x*x + c),   Num(t*x*y - s*z), Num(t*x*z + s*y), Num(0)>>,
           <<Num(t*x*y + s*z), Num(t*y*y + c),   Num(t*y*z - s*x), Num(0)>>,
           <<Num(t*x*z - s*y), Num(t*y*z + s*x), Num(t*z*z + c),   Num(0)>>,
           <<Num(0),           Num(0),           Num(0),           Num(1)>> >>

\* C14: at every angle and non-zero axis tried, rotate(angle, axis) is the
\* Rodrigues rotation matrix about the normalized axis, element by element
\* (in the handedness C15 fixes, which is the transpose of the right-handed
\* matrix; the right-handed matrix itself is accepted too), and it is the
\* matrix rotate gives for every positive multiple of the axis.
C14_RotateIsRodrigues ==
    xf.op = "rotate" /\ xf.v # <<0, 0, 0>> =>
        /\ xf.m \in {Transpose(Rodrigues(xf.angle, xf.v)), Rodrigues(xf.angle, xf.v)}
        /\ \A k \in 1..MaxAxis :
              rotate(xf.angle, <<k * xf.v[1], k * xf.v[2], k * xf.v[3]>>) = xf.m

\* A quarter turn about the X axis.
C14_QuarterTurnAboutX ==
    xf.op = "rotate" /\ xf.v = <<1, 0, 0>> /\ xf.angle = QuarterTurn

\* M . v for a 4x4 matrix and a homogeneous column vector.
Apply(m, v) ==
    [i \in 1..4 |-> FAdd(FAdd(FMul(m[i][1], Num(v[1])), FMul(m[i][2], Num(v[2]))),
                         FAdd(FMul(m[i][3], Num(v[3])), FMul(m[i][4], Num(v[4]))))]

\* C15: M = rotate(90, (0,1,0)) applied to the point (1,0,0) as M . v gives
\* the point (0,0,1).
C15_QuarterTurnAboutY ==
    xf.op = "rotate" /\ xf.v = <<0, 1, 0>> /\ xf.angle = QuarterTurn =>
        Apply(xf.m, <<1, 0, 0, 1>>) = <<Num(0), Num(0), Num(1), Num(1)>>

\* The call rotate(90, (0,1,0)) has returned a matrix of numbers.
C15_RotatedAboutY ==
    /\ xf.op = "rotate" /\ xf.v = <<0, 1, 0>> /\ xf.angle = QuarterTurn
    /\ \A i, k \in 1..4 : ~xf.m[i][k].nan

\* The objects release() calls release on.
ReleaseTargets(r) == {r.vbo, r.vao, r.fbo, r.ctx} \ {0}

\* C16: over any sequence of release() calls on one renderer, each of vbo,
\* vao, fbo and ctx receives at most one release call, and no release() call
\* meets an object that is already released.
C16_ReleaseIdempotent ==
    \A j \in Jobs :
        rend[j].built =>
            /\ \A id \in ReleaseTargets(rend[j]) : rend[j].res[id].rel <= 1
            /\ "release" \notin rend[j].misuse

\* A renderer with geometry on which release() was called a second time.
C16_ReleasedTwice ==
    \E j \in Jobs : /\ rend[j].released /\ rend[j].vbo # 0
                    /\ "release" \in rend[j].misuse

\* The buffers and vertex arrays a renderer has created.
Buffers(r) == {id \in 1..Len(r.res) : r.res[id].kind \in {"vbo", "ibo", "vao"}}

\* The vbo, index buffer and vao of the geometry loaded last.
CurrentGeometry(r) == IF r.vbo = 0 THEN {} ELSE {r.vbo, r.vbo + 1, r.vao}

\* C20: the vbo, index buffer and vao that a load_geometry call replaces have
\* been released, and once release() has been called after any number of
\* load_geometry calls every buffer the renderer created has been released.
C20_NoBufferLeft ==
    \A j \in Jobs :
        rend[j].built =>
            /\ \A id \in Buffers(rend[j]) \ CurrentGeometry(rend[j]) :
                  rend[j].res[id].rel >= 1
            /\ rend[j].released =>
                  \A id \in Buffers(rend[j]) : rend[j].res[id].rel >= 1

\* Two load_geometry calls followed by one release(), nothing used after its
\* release.
C20_LoadedTwiceThenReleased ==
    \E j \in Jobs : /\ rend[j].released /\ rend[j].misuse = {}
                    /\ Cardinality(Buffers(rend[j])) = 6
                    /\ rend[j].res[rend[j].vbo].rel = 1

\* C17: every renderer is worked on by one job only: a job that has
\* constructed its renderer is the creator of the renderer it works on, no
\* two jobs work on the same renderer, and every call made on a renderer
\* (construction, set_camera, load_geometry, texture upload, render_frame,
\* release) was made by its creator.  Each call is one step of the calling
\* job, whose steps follow one another, so calls on a renderer do not overlap.
C17_OneOwner ==
    /\ \A j \in Jobs :
          job[j].pc \notin {"idle", "start"} =>
              /\ rend[RendererOf(j)].built
              /\ rend[RendererOf(j)].creator = j
    /\ \A j, k \in Jobs : j # k => RendererOf(j) # RendererOf(k)
    /\ \A r \in Jobs : rend[r].built => rend[r].callers = {rend[r].creator}

\* Two jobs at once in their render loops, each with its renderer set up.
C17_TwoJobsRendering ==
    /\ job[1].pc = "loop" /\ job[2].pc = "loop"
    /\ rend[1].vao # 0 /\ rend[2].vao # 0
    /\ rend[1].callers = {1} /\ rend[2].callers = {2}

\* The textures uploaded during a job: decoded images and placeholders.
Uploaded(r) == {id \in 1..Len(r.res) : r.res[id].kind \in {"image", "magenta", "white"}}

\* C18: for a shape of MODELS and 1 to 6 input images, a render_animation call
\* that has ended has released every texture it uploaded exactly once; and the
\* cleanup loop, run over the resolved texture list, releases every uploaded
\* texture exactly once (a cube given fewer than 6 images included).
C18_EachTextureReleasedOnce ==
    \A j \in Jobs :
        LET J == job[j]
            r == rend[j]
        IN  J.shape_name \in MODELS /\ Len(J.images_paths) \in 1..CubeFaces =>
                /\ Ended(j) => \A id \in Uploaded(r) : r.res[id].rel = 1
                /\ Resolved(j) =>
                      \A id \in Uploaded(r) :
                          ReleaseTextures(r, J.textures).res[id].rel = 1

\* A call for a cube with three images that resolved them to six entries and
\* has ended.
C18_CubeOfThreeEnded ==
    \E j \in Jobs : /\ Ended(j) /\ job[j].shape_name = "cube"
                    /\ Len(job[j].decoded) = 3 /\ Len(job[j].textures) = CubeFaces
                    /\ Cardinality(Uploaded(rend[j])) = 3

\* C19: for every shape of MODELS and 0 to 6 input images the resolution of
\* the texture list ends: each pass of the cube's padding loop leaves the list
\* longer than it found it, so the loop reaches 6 entries, and the resolved
\* list the render loop reads its first texture from is not empty.
C19_ResolutionTerminates ==
    \A j \in Jobs :
        LET J == job[j]
        IN  J.shape_name \in MODELS /\ Len(J.images_paths) <= CubeFaces =>
                /\ J.pc = "pad" /\ PadContinues(J.textures) =>
                      Len(J.textures \o J.textures) > Len(J.textures)
                /\ Resolved(j) => J.textures # <<>>

\* A call for a cube with no input image, in its padding loop.
C19_CubeOfNone ==
    \E j \in Jobs : /\ job[j].pc = "pad" /\ job[j].shape_name = "cube"
                    /\ job[j].images_paths = <<>>

\* ---- C21..C24

\* The positions in a renderer's log of the release calls on objects of the
\* given kinds.
ReleasesOf(r, kinds) ==
    {i \in 1..Len(r.log) : \E kind \in kinds : r.log[i] = "release:" \o kind}

\* The framebuffer's colour attachment.
ColourTarget(r) == {id \in 1..Len(r.res) : r.res[id].kind = "texture"}

\* C21: a release() on a renderer with geometry, none of whose objects was
\* released before, calls release on the vertex and index buffers (and the
\* vertex array) first, then on the framebuffer, then on the context; and
\* when it has returned the vbo, index buffer and vao of the loaded geometry,
\* the framebuffer, its colour attachment and the context have all been
\* released.
C21_ReleasesAllInOrder ==
    \A j \in Jobs :
        LET r == rend[j]
        IN  r.released /\ r.misuse = {} /\ r.vbo # 0 =>
                /\ \A i \in ReleasesOf(r, {"vbo", "ibo", "vao"}),
                      k \in ReleasesOf(r, {"framebuffer"}) : i < k
                /\ \A i \in ReleasesOf(r, {"framebuffer"}),
                      k \in ReleasesOf(r, {"context"}) : i < k
                /\ \A id \in CurrentGeometry(r) \cup {r.fbo, r.ctx} \cup ColourTarget(r) :
                      r.res[id].rel >= 1

\* A renderer with one geometry loaded, released once.
C21_ReleasedOnce ==
    \E j \in Jobs :
        /\ rend[j].released /\ rend[j].misuse = {} /\ rend[j].vbo # 0
        /\ Cardinality(Buffers(rend[j])) = 3
        /\ ReleasesOf(rend[j], {"context"}) # {}

\* R(q): the point rotate(angle, axis), as returned, takes the point q to.
Rotated(angle, axis, q) ==
    MatVec(rotate(angle, axis), <<Num(q[1]), Num(q[2]), Num(q[3]), Num(1)>>)

\* C22: with T = translate(t), R = rotate(angle, axis) and S = scale(s) as
\* the builders return them, (T @ R @ S) . (p, 1) is the point t + R(s * p)
\* with fourth component 1: scaled first, then rotated, then translated.
C22_ScaleRotateTranslate ==
    xf.op = "compose" =>
        LET q == Rotated(xf.angle, xf.v,
                         <<xf.s[1] * xf.p[1], xf.s[2] * xf.p[2], xf.s[3] * xf.p[3]>>)
        IN  xf.out = <<Num(xf.t[1] + q[1].n), Num(xf.t[2] + q[2].n),
                       Num(xf.t[3] + q[3].n), Num(1)>>

\* A product with a translation that is not zero, a quarter turn about Y and
\* a scale that is not uniform.
C22_Composed ==
    /\ xf.op = "compose" /\ xf.t = <<1, 0, 1>> /\ xf.angle = QuarterTurn
    /\ xf.v = <<0, 1, 0>> /\ xf.s = <<1, 2, 3>> /\ xf.p = <<1, 2, 3>>

\* The step of a render_frame call that log entry i follows, "" for the first.
Before(r, i) == IF i = 1 THEN "" ELSE r.log[i - 1]

\* C23: in every render_frame call, made in any state of the renderer, the
\* steps come in this order with nothing between them: clear, model matrix
\* upload, texture bound to unit 0, one draw, ctx.finish, read-back; so no
\* read-back comes before its finish and no finish before its draw.
C23_StepsInOrder ==
    \A j \in Jobs :
        LET r == rend[j]
        IN  \A i \in 1..Len(r.log) :
                /\ r.log[i] = "read" => Before(r, i) = "finish"
                /\ r.log[i] = "finish" => Before(r, i) = "draw"
                /\ r.log[i] = "draw" => Before(r, i) = "bind_texture"
                /\ r.log[i] = "bind_texture" => Before(r, i) = "write_model"
                /\ r.log[i] = "write_model" => Before(r, i) = "clear"
                /\ r.log[i] = "clear" => Before(r, i) = "use"

\* A renderer on which render_frame has read back twice.
C23_TwoReadBacks ==
    \E j \in Jobs :
        \E i, k \in 1..Len(rend[j].log) :
            i < k /\ rend[j].log[i] = "read" /\ rend[j].log[k] = "read"

\* ---- main.py: the dialogue of one user

\* Photos are told apart by file_unique_id only, so the ids tried are 1, 2, ...
\* up to MaxPhotos, a new photo taking the first id the stored list lacks.
MaxPhotos == 5
Min(a, b) == IF a < b THEN a ELSE b

\* The callback data a shape selection can carry, split at "_": the three
\* buttons of get_shape_keyboard, and data of no button (the filter asks only
\* that the data start with "shape_").
CallbackData ==
    {<<"shape", "coin">>, <<"shape", "cube">>, <<"shape", "pyramid">>,
     <<"shape", "sphere">>, <<"shape", "">>, <<"shape", "coin", "x">>}
\* callback.data.split("_")[1]
ShapeOf(data) == data[2]

\* Events are handled one at a time: none while a /render handler runs.
Quiet == hnd[1].pc \in {"idle", "returned", "done"}

\* The dialogue after an event, with the event noted.
Handled(event, d) == [d EXCEPT !.last = [event |-> event, from |-> dlg.state]]

\* command_start_handler: /start in any state.
DStart ==
    /\ Quiet
    /\ dlg' = Handled("start", [Cleared(dlg) EXCEPT !.state = "waiting_for_images"])
    /\ UNCHANGED <<xf, geo, rend, ops, job, hnd, fs>>

\* handle_image_upload: a photo while waiting for images; in any other state
\* a photo changes nothing.
DPhoto ==
    /\ Quiet
    /\ \E id \in 1..Min(Len(dlg.images) + 1, MaxPhotos) :
          LET images == IF \E i \in 1..Len(dlg.images) : dlg.images[i] = id
                        THEN dlg.images ELSE Append(dlg.images, id)
              count == Len(images)
          IN  dlg' = Handled("photo",
                        IF dlg.state = "waiting_for_images"
                        THEN [dlg EXCEPT
                                 !.images = images,
                                 !.state = IF count < MinUpload THEN @
                                           ELSE IF count = MaxUpload THEN "waiting_for_shape"
                                           ELSE @]
                        ELSE dlg)
    /\ UNCHANGED <<xf, geo, rend, ops, job, hnd, fs>>

\* handle_invalid_message_in_images_state, handle_config_message: a message
\* that is neither a photo nor a command is answered and changes nothing.
DText ==
    /\ Quiet
    /\ dlg' = Handled("text", dlg)
    /\ UNCHANGED <<xf, geo, rend, ops, job, hnd, fs>>

\* handle_shape_selection: a callback whose data starts with "shape_", while
\* waiting for images or for the shape.
DShape ==
    /\ Quiet
    /\ \E data \in CallbackData :
          dlg' = Handled("shape",
                    IF dlg.state \in {"waiting_for_images", "waiting_for_shape"}
                       /\ ~(Len(dlg.images) < MinUpload)
                    THEN [dlg EXCEPT !.shape = ShapeOf(data), !.state = "waiting_for_config"]
                    ELSE dlg)
    /\ UNCHANGED <<xf, geo, rend, ops, job, hnd, fs>>

\* The message /render: handle_render_command begins while waiting for the
\* configuration, with the stored shape and images; elsewhere it changes
\* nothing.
DRender ==
    /\ Quiet
    /\ dlg' = Handled("render", dlg)
    /\ IF dlg.state = "waiting_for_config"
       THEN /\ hnd' = [hnd EXCEPT ![1] =
                         [NoHandler EXCEPT !.pc = "start", !.user_id = 1,
                                           !.shape = dlg.shape,
                                           !.images_data = Len(dlg.images)]]
            /\ job' = [job EXCEPT ![1] = NoJob]
            /\ rend' = [rend EXCEPT ![1] = NoRenderer]
       ELSE UNCHANGED <<rend, job, hnd>>
    /\ UNCHANGED <<xf, geo, ops, fs>>

NextDialogue ==
    \/ DStart
    \/ DPhoto
    \/ DText
    \/ DShape
    \/ DRender
    \/ Handler(1)
    \/ RenderAnimation(1)

SpecDialogue == InitGeom /\ [][NextDialogue]_vars

\* C24: while a render_animation call made by the /render handler is in
\* progress the stored shape is one of coin, cube, pyramid and is the shape
\* passed, and the stored images are at least 3 and at most 4, with pairwise
\* distinct file_unique_id, one path passed per image; and after a shape
\* selection made while waiting for images with fewer than 3 images stored the
\* dialogue still waits for images and no shape is stored.
C24_RenderOnlyWhenReady ==
    /\ hnd[1].pc = "rendering" =>
          /\ dlg.shape \in MODELS
          /\ job[1].shape_name = dlg.shape
          /\ Len(dlg.images) >= MinUpload /\ Len(dlg.images) <= MaxUpload
          /\ Len(job[1].images_paths) = Len(dlg.images)
          /\ \A i, k \in 1..Len(dlg.images) : i # k => dlg.images[i] # dlg.images[k]
    /\ dlg.last.event = "shape" /\ dlg.last.from = "waiting_for_images"
       /\ Len(dlg.images) < MinUpload =>
          dlg.state = "waiting_for_images" /\ dlg.shape = ""

\* render_animation invoked from the dialogue with four images stored.
C24_RenderInvoked ==
    /\ hnd[1].pc = "rendering" /\ job[1].pc # "idle"
    /\ dlg.state = "waiting_for_config" /\ Len(dlg.images) = MaxUpload

====
